---- MODULE Spec2Model ----
(***************************************************************************)
(* llms-fetcher (src/src/index.js): the on-demand freshness check          *)
(* ensureFreshLlmsFile, the unconditional saveLlmsTextToFile used by the   *)
(* scheduler and the one-shot run, the two files they share (the content   *)
(* file and .llms.meta.json), the wall clock and the remote server.        *)
(*                                                                         *)
(* A call is an async function: everything up to its `await` is one step   *)
(* and everything from the arrival of the response up to the return is one *)
(* step again (JavaScript runs it to completion).  The response is what    *)
(* the server answers at the moment it arrives.  Several calls may be      *)
(* outstanding at once.                                                    *)
(*                                                                         *)
(* startDailyScheduler, its timers and its runOnce, which calls            *)
(* saveLlmsTextToFile and logs the outcome, are modelled on the same       *)
(* files; msUntilNextRunAt is computed on local days of 24 hours.          *)
(***************************************************************************)
EXTENDS Integers, FiniteSets, Sequences, TLC

VARIABLES content, meta, clock, server, calls, last, hops, sched, dir

vars == <<content, meta, clock, server, calls, last, hops, sched, dir>>

(***************************************************************************)
(* Bounds of the model.                                                    *)
(***************************************************************************)
NumVersions == 2
MaxTicks == 2
ClockStepHours == 24
MaxHops == 3
MaxRuns == 3
NowSamples == 3

(***************************************************************************)
(* Program constants.                                                      *)
(***************************************************************************)
MsPerHour == 3600000
DefaultTtlHours == 24
NULL == 0
NoFile == 0
MsPerMinute == MsPerHour \div 60
MsPerDay == 24 * MsPerHour

\* Two callers, whose calls may overlap.
Procs == {"a", "b"}
Times == {k * ClockStepHours * MsPerHour : k \in 1..MaxTicks}

(***************************************************************************)
(* JavaScript values a TTL setting can take: a finite number n/d, NaN,     *)
(* Infinity, undefined, or (environment variables) a decimal string.       *)
(***************************************************************************)
Num(n, d) == [k |-> "num", n |-> n, d |-> d]
Str(n, d) == [k |-> "str", n |-> n, d |-> d]
NaN == [k |-> "nan", n |-> 0, d |-> 1]
Infinity == [k |-> "inf", n |-> 0, d |-> 1]
Undef == [k |-> "undef", n |-> 0, d |-> 1]

\* JavaScript truthiness, as `||` tests it: 0, NaN and undefined are falsy,
\* every non-empty string (also "0") is truthy.
Truthy(v) ==
  CASE v.k = "num" -> v.n # 0
    [] v.k = "str" -> TRUE
    [] v.k = "inf" -> TRUE
    [] OTHER -> FALSE

\* Number(v)
ToNumber(v) ==
  CASE v.k = "str" -> Num(v.n, v.d)
    [] v.k = "undef" -> NaN
    [] OTHER -> v

\* Number.isFinite(v): true of finite values of type number only.
IsFiniteNumber(v) == v.k = "num"

\* a || b
Or(a, b) == IF Truthy(a) THEN a ELSE b

\* resolveConfig's ttlHours
ResolveTtlHours(cli, env, pkg) ==
  ToNumber(Or(cli, Or(env, Or(pkg, Num(DefaultTtlHours, 1)))))

Max(a, b) == IF a >= b THEN a ELSE b

\* ensureFreshLlmsFile's ttlMs
TtlMs(ttlHours) ==
  LET h == IF IsFiniteNumber(ttlHours) THEN ttlHours ELSE Num(DefaultTtlHours, 1)
  IN Max(0, (h.n * MsPerHour) \div h.d)

(***************************************************************************)
(* The remote resource.  The server publishes one version at a time;       *)
(* version i has body i, and carries an ETag and a Last-Modified header    *)
(* or not, so that every combination of headers occurs among the versions. *)
(***************************************************************************)
Versions == 1..NumVersions
HasEtag(i) == i % 4 \in {1, 2}
HasLastModified(i) == i % 4 \in {1, 3}
VersionEtag(i) == IF HasEtag(i) THEN i ELSE NULL
VersionLastModified(i) == IF HasLastModified(i) THEN i ELSE NULL

FetchErrors == {"timeout", "status"}

NoResp == [status |-> "none", text |-> 0, etag |-> NULL, lastModified |-> NULL, err |-> "none"]

\* a || null for a validator
OrNull(a) == IF a # NULL THEN a ELSE NULL

\* reject(new Error(...)): the fetch promise rejects with the error e
FetchRejected(e) ==
  [status |-> "err", text |-> 0, etag |-> NULL, lastModified |-> NULL, err |-> e]

\* fetchTextFileWithMetadata resolving a 304: no body, the validators of the request
FetchNotModified(etag, lastModified) ==
  [status |-> "304", text |-> 0, etag |-> OrNull(etag),
   lastModified |-> OrNull(lastModified), err |-> "none"]

\* fetchTextFileWithMetadata / fetchTextFile resolving a 200 that served version v
FetchOk(v) ==
  [status |-> "200", text |-> v, etag |-> OrNull(VersionEtag(v)),
   lastModified |-> OrNull(VersionLastModified(v)), err |-> "none"]

(***************************************************************************)
(* The metadata file: absent, unparsable, or the JSON object the program   *)
(* writes.                                                                 *)
(***************************************************************************)
AbsentMeta == [kind |-> "absent", etag |-> NULL, lastModified |-> NULL, lastFetchedAtMs |-> 0]
CorruptMeta == [kind |-> "corrupt", etag |-> NULL, lastModified |-> NULL, lastFetchedAtMs |-> 0]
JsonMeta(etag, lastModified, at) ==
  [kind |-> "json", etag |-> etag, lastModified |-> lastModified, lastFetchedAtMs |-> at]

\* readJsonSafe(metaPath) || {} : the fields of an empty object read as undefined
readJsonSafe(m) == IF m.kind = "json" THEN m ELSE JsonMeta(NULL, NULL, 0)

\* ensureDirectoryExists before a write, dir telling whether the output
\* directory exists: it exists after a write that succeeded (ok); when the
\* write failed, mkdirSync had created it or had failed itself
ensureDirectoryExists(d, ok) == IF ok THEN {TRUE} ELSE {d, TRUE}

\* writeJsonSafe: the write happens, or it throws and the error is swallowed
writeJsonSafe(old, data, ok) == IF ok THEN data ELSE old

(***************************************************************************)
(* Calls.  A call that awaits its response remembers what it read before   *)
(* the await: the validators, Date.now() and whether the file existed.     *)
(***************************************************************************)
IdleCall ==
  [pc |-> "idle", op |-> "none", etag |-> NULL, lastModified |-> NULL, now |-> 0,
   fileExists |-> FALSE]

\* What the last step was: the event, the call p that took it, the response
\* it consumed, the Date.now() of the call, and what the caller got.
Ev(ev, p, resp, now, result, err) ==
  [ev |-> ev, p |-> p, resp |-> resp, now |-> now, result |-> result, err |-> err]

EnvEv(ev) == Ev(ev, "env", NoResp, 0, "none", "none")

InFlight == {p \in Procs : calls[p].pc = "sent"}
AllIdle == InFlight = {}

(***************************************************************************)
(* How a caller sets the TTL: directly in the config object handed to      *)
(* ensureFreshLlmsFile, or through resolveConfig (cli, env, package.json). *)
(***************************************************************************)
DirectTtl == {Num(0, 1), Num(0 - 1, 1), Num(24, 1), Num(1, 4000000), NaN, Infinity, Undef}
Configs ==
  {[via |-> "direct", cli |-> v, env |-> Undef, pkg |-> Undef] : v \in DirectTtl}
  \cup {[via |-> "resolveConfig", cli |-> c, env |-> e, pkg |-> g] :
          c \in {Undef, Num(0, 1)}, e \in {Undef, Str(0, 1)},
          g \in {Undef, Num(0, 1), Num(24, 1)}}

\* config.ttlHours as ensureFreshLlmsFile receives it
ConfigTtlHours(cfg) ==
  IF cfg.via = "direct" THEN cfg.cli ELSE ResolveTtlHours(cfg.cli, cfg.env, cfg.pkg)

\* the ttlMs a call with the configuration cfg computes
ConfigTtlMs(cfg) == TtlMs(ConfigTtlHours(cfg))

\* every ttlMs some configuration leads to
TtlValues == {ConfigTtlMs(cfg) : cfg \in Configs}

\* the TTL the caller asked for: the setting of highest precedence that is given
RequestedTtl(cfg) ==
  IF cfg.cli # Undef THEN cfg.cli ELSE IF cfg.env # Undef THEN cfg.env ELSE cfg.pkg

TtlClass(v) ==
  CASE v.k \in {"nan", "inf"} -> "nonfinite"
    [] v.k = "undef" -> "default"
    [] v.n < 0 -> "negative"
    [] v.n = 0 -> "zero"
    [] OTHER -> "positive"

\* (mutant) the age comparison the wrong way round
FreshHit_Inverted(fileExists, lastFetchedAtMs, now, ttlMs) ==
  fileExists /\ lastFetchedAtMs # 0 /\ now - lastFetchedAtMs > ttlMs

\* (mutant) a missing lastFetchedAtMs counts as fresh
FreshHit_NoStamp(fileExists, lastFetchedAtMs, now, ttlMs) ==
  fileExists /\ (lastFetchedAtMs = 0 \/ now - lastFetchedAtMs < ttlMs)

\* the short-circuit test of ensureFreshLlmsFile
FreshHit(fileExists, lastFetchedAtMs, now, ttlMs) ==
  fileExists /\ lastFetchedAtMs # 0 /\ now - lastFetchedAtMs < ttlMs

(***************************************************************************)
(* The scheduler.  runAt is "HH:MM" or a string that does not parse; the   *)
(* logger is console or an injected object with info, warn and error,      *)
(* which has a log method or not and whose methods return a truthy value   *)
(* or not.  now is the local time of day, in ms, at which                  *)
(* startDailyScheduler is called.                                          *)
(***************************************************************************)
RunAt(hh, mm) == [k |-> "hhmm", hh |-> hh, mm |-> mm]
InvalidRunAt == [k |-> "nan", hh |-> 0, mm |-> 0]

Console == [hasLog |-> TRUE, truthy |-> FALSE]
Loggers == {[hasLog |-> a, truthy |-> b] : a \in BOOLEAN, b \in BOOLEAN}

SchedOff(intervalHours, runAt, now, logger) ==
  [mode |-> "off", intervalHours |-> intervalHours, runAt |-> runAt, now |-> now,
   logger |-> logger, timeout |-> FALSE, delay |-> 0, intervals |-> 0,
   intervalMs |-> 0, started |-> 0, awaited |-> "none", rejected |-> FALSE,
   alive |-> TRUE, stopRequested |-> FALSE]

\* (mutant) a run time equal to the current time counts as still to come
msUntilNextRunAt_NoRollover(runAt, now) ==
  IF runAt.k = "nan"
  THEN MsPerDay
  ELSE LET next == runAt.hh * MsPerHour + runAt.mm * MsPerMinute
       IN IF next < now THEN next + MsPerDay - now ELSE next - now

\* msUntilNextRunAt: next is today at HH:MM:00.000, or tomorrow when that is
\* not after now
msUntilNextRunAt(runAt, now) ==
  IF runAt.k = "nan"
  THEN MsPerDay
  ELSE LET next == runAt.hh * MsPerHour + runAt.mm * MsPerMinute
       IN IF next <= now THEN next + MsPerDay - now ELSE next - now

\* Number.isFinite(intervalHours) && intervalHours > 0
IntervalMode(intervalHours) == IsFiniteNumber(intervalHours) /\ intervalHours.n > 0

\* Math.max(1, Math.floor(intervalHours * 60 * 60 * 1000))
IntervalMs(intervalHours) == Max(1, (intervalHours.n * MsPerHour) \div intervalHours.d)

\* log.info?.(msg) || log.log(msg), and the same with log.error in the catch
\* block: log.log is called when the first call returns a falsy value, and
\* that call throws a TypeError when the logger has no log method.
LogThrows(logger) == ~logger.truthy /\ ~logger.hasLog

TypeOK ==
  /\ content \in {NoFile} \cup Versions
  /\ meta.kind \in {"absent", "corrupt", "json"}
  /\ clock \in Times
  /\ server \in Versions
  /\ \A p \in Procs : calls[p].pc \in {"idle", "sent"}
  /\ \A p \in Procs : hops[p] \in 0..MaxHops
  /\ sched.mode \in {"off", "interval", "runAt"}
  /\ dir \in BOOLEAN
  /\ (content # NoFile \/ meta.kind # "absent") => dir

Init ==
  /\ content = NoFile
  /\ meta = AbsentMeta
  /\ clock = ClockStepHours * MsPerHour
  /\ server = 1
  /\ calls = [p \in Procs |-> IdleCall]
  /\ last = EnvEv("init")
  /\ hops = [p \in Procs |-> 0]
  /\ dir = FALSE
  /\ sched = SchedOff(Num(0, 1), RunAt(2, 0), 0, Console)

(***************************************************************************)
(* ensureFreshLlmsFile up to its await: read the metadata, test freshness, *)
(* and either return the path or send the conditional request.             *)
(***************************************************************************)
EnsureStart(p, ttlMs) ==
  /\ calls[p].pc = "idle"
  /\ LET m == readJsonSafe(meta)
         c == [pc |-> "sent", op |-> "ensure", etag |-> m.etag,
               lastModified |-> m.lastModified, now |-> clock,
               fileExists |-> content # NoFile]
     IN IF FreshHit(c.fileExists, m.lastFetchedAtMs, c.now, ttlMs)
        THEN /\ calls' = calls
             /\ last' = Ev("fresh", p, NoResp, c.now, "path", "none")
        ELSE /\ calls' = [calls EXCEPT ![p] = c]
             /\ last' = Ev("request", p, NoResp, c.now, "none", "none")
  /\ UNCHANGED <<content, meta, clock, server, dir>>

(***************************************************************************)
(* saveLlmsTextToFile up to its await: send the unconditional request.     *)
(***************************************************************************)
SaveStart(p) ==
  /\ calls[p].pc = "idle"
  /\ calls' = [calls EXCEPT ![p] = [IdleCall EXCEPT !.pc = "sent", !.op = "save"]]
  /\ last' = Ev("saveRequest", p, NoResp, 0, "none", "none")
  /\ UNCHANGED <<content, meta, clock, server, dir>>

(***************************************************************************)
(* What a fetch can end with: an error (timeout, status), a 304 when the   *)
(* request carries a validator that matches the published version, else a  *)
(* 200 with the published version.                                         *)
(***************************************************************************)
\* the conditional headers of the request: one per validator that is given
ConditionalHeaders(etag, lastModified) ==
  [ifNoneMatch |-> OrNull(etag), ifModifiedSince |-> OrNull(lastModified)]

Matches(etag, lastModified) ==
  LET h == ConditionalHeaders(etag, lastModified)
  IN \/ h.ifNoneMatch # NULL /\ h.ifNoneMatch = VersionEtag(server)
     \/ /\ h.ifNoneMatch = NULL
        /\ h.ifModifiedSince # NULL
        /\ h.ifModifiedSince = VersionLastModified(server)

fetchTextFileWithMetadata(etag, lastModified) ==
  {FetchRejected(e) : e \in FetchErrors}
  \cup {IF Matches(etag, lastModified) THEN FetchNotModified(etag, lastModified)
        ELSE FetchOk(server)}

fetchTextFile == {FetchRejected(e) : e \in FetchErrors} \cup {FetchOk(server)}

(***************************************************************************)
(* ensureFreshLlmsFile from the response r to its return or throw.         *)
(* contentOk, metaOk: whether the file system performs the two writes.     *)
(***************************************************************************)
\* (mutant) the catch block also stamps the metadata with the time of the call
EnsureCatch_Touch(p, c, r, e) ==
  /\ UNCHANGED content
  /\ meta' = JsonMeta(OrNull(c.etag), OrNull(c.lastModified), c.now)
  /\ last' = IF c.fileExists
             THEN Ev("stale", p, r, c.now, "path", "none")
             ELSE Ev("failed", p, r, c.now, "throw", e)

\* (mutant) the catch block throws a new error in place of the one it caught
EnsureCatch_Wrap(p, c, r, e) ==
  /\ UNCHANGED <<content, meta>>
  /\ last' = IF c.fileExists
             THEN Ev("stale", p, r, c.now, "path", "none")
             ELSE Ev("failed", p, r, c.now, "throw", "wrapped")

\* the catch block: serve the existing file, or rethrow
EnsureCatch(p, c, r, e) ==
  /\ UNCHANGED <<content, meta>>
  /\ last' = IF c.fileExists
             THEN Ev("stale", p, r, c.now, "path", "none")
             ELSE Ev("failed", p, r, c.now, "throw", e)

\* the 304 branch
EnsureNotModified(p, c, r, metaOk) ==
  /\ meta' = writeJsonSafe(meta, JsonMeta(OrNull(c.etag), OrNull(c.lastModified), c.now), metaOk)
  /\ UNCHANGED content
  /\ last' = Ev("revalidated", p, r, c.now, "path", "none")

\* the 200 branch
EnsureWrite(p, c, r, contentOk, metaOk) ==
  IF ~contentOk
  THEN EnsureCatch(p, c, r, "io")
  ELSE /\ content' = r.text
       /\ meta' = writeJsonSafe(meta, JsonMeta(OrNull(r.etag), OrNull(r.lastModified), c.now), metaOk)
       /\ last' = Ev("updated", p, r, c.now, "path", "none")

\* the output directory after ensureFreshLlmsFile has handled the response
\* r: untouched by the catch block, created for the metadata write of the
\* 304 branch and for the content write of the 200 branch
EnsureDir(r, contentOk, metaOk) ==
  CASE r.status = "err" -> {dir}
    [] r.status = "304" -> ensureDirectoryExists(dir, metaOk)
    [] OTHER -> ensureDirectoryExists(dir, contentOk)

\* (mutant) a failed fetch is sent again by the same call
EnsureResume_Retry(p, r, contentOk, metaOk) ==
  /\ calls[p].pc = "sent"
  /\ calls[p].op = "ensure"
  /\ r \in fetchTextFileWithMetadata(calls[p].etag, calls[p].lastModified)
  /\ LET c == calls[p]
     IN CASE r.status = "err" ->
               /\ UNCHANGED <<content, meta, calls>>
               /\ last' = Ev("request", p, NoResp, c.now, "none", "none")
          [] r.status = "304" ->
               /\ EnsureNotModified(p, c, r, metaOk)
               /\ calls' = [calls EXCEPT ![p] = IdleCall]
          [] OTHER ->
               /\ EnsureWrite(p, c, r, contentOk, metaOk)
               /\ calls' = [calls EXCEPT ![p] = IdleCall]
  /\ dir' \in EnsureDir(r, contentOk, metaOk)
  /\ UNCHANGED <<clock, server>>

EnsureResume(p, r, contentOk, metaOk) ==
  /\ calls[p].pc = "sent"
  /\ calls[p].op = "ensure"
  /\ r \in fetchTextFileWithMetadata(calls[p].etag, calls[p].lastModified)
  /\ LET c == calls[p]
     IN CASE r.status = "err" -> EnsureCatch(p, c, r, r.err)
          [] r.status = "304" -> EnsureNotModified(p, c, r, metaOk)
          [] OTHER -> EnsureWrite(p, c, r, contentOk, metaOk)
  /\ calls' = [calls EXCEPT ![p] = IdleCall]
  /\ dir' \in EnsureDir(r, contentOk, metaOk)
  /\ UNCHANGED <<clock, server>>

(***************************************************************************)
(* saveLlmsTextToFile from the response r to its return or throw.          *)
(***************************************************************************)
\* (mutant) the output directory is created before the outcome of the fetch
\* is known
SaveResume_MkdirFirst(p, r, contentOk) ==
  /\ calls[p].pc = "sent"
  /\ calls[p].op = "save"
  /\ r \in fetchTextFile
  /\ IF r.status = "200" /\ contentOk
     THEN /\ content' = r.text
          /\ last' = Ev("saved", p, r, 0, "path", "none")
     ELSE /\ UNCHANGED content
          /\ last' = Ev("saveFailed", p, r, 0, "throw",
                        IF r.status = "200" THEN "io" ELSE r.err)
  /\ dir' = TRUE
  /\ calls' = [calls EXCEPT ![p] = IdleCall]
  /\ UNCHANGED <<meta, clock, server>>

SaveResume(p, r, contentOk) ==
  /\ calls[p].pc = "sent"
  /\ calls[p].op = "save"
  /\ r \in fetchTextFile
  /\ IF r.status = "200" /\ contentOk
     THEN /\ content' = r.text
          /\ last' = Ev("saved", p, r, 0, "path", "none")
     ELSE /\ UNCHANGED content
          /\ last' = Ev("saveFailed", p, r, 0, "throw",
                        IF r.status = "200" THEN "io" ELSE r.err)
  /\ dir' \in (IF r.status = "200" THEN ensureDirectoryExists(dir, contentOk) ELSE {dir})
  /\ calls' = [calls EXCEPT ![p] = IdleCall]
  /\ UNCHANGED <<meta, clock, server>>

(***************************************************************************)
(* The environment: the wall clock (Date.now() may also step back), the    *)
(* server publishing another version, and the metadata file being lost or  *)
(* damaged between calls, or the content file being removed.               *)
(***************************************************************************)
Tick ==
  /\ \E t \in Times \ {clock} : clock' = t
  /\ last' = EnvEv("tick")
  /\ UNCHANGED <<content, meta, server, calls, dir>>

Publish ==
  /\ \E v \in Versions \ {server} : server' = v
  /\ last' = EnvEv("publish")
  /\ UNCHANGED <<content, meta, clock, calls, dir>>

MetaLost ==
  /\ AllIdle
  /\ meta.kind = "json"
  /\ \E m \in {AbsentMeta, CorruptMeta} : meta' = m
  /\ last' = EnvEv("metaLost")
  /\ UNCHANGED <<content, clock, server, calls, dir>>

\* the content file is removed between calls (the metadata file stays)
ContentLost ==
  /\ AllIdle
  /\ content # NoFile
  /\ content' = NoFile
  /\ last' = EnvEv("contentLost")
  /\ UNCHANGED <<meta, clock, server, calls, dir>>

(***************************************************************************)
(* The process is killed while ensureFreshLlmsFile handles a 200: before   *)
(* the content write, between the content write and the metadata write,    *)
(* or during the metadata write, which leaves an unparsable file.  Every   *)
(* call of the process ends with it.                                       *)
(***************************************************************************)
CrashPoints == {"beforeContent", "between", "duringMeta"}

\* (mutant) the metadata is written first and the content after it
EnsureWriteCrash_MetaFirst(p, r, at) ==
  /\ calls[p].pc = "sent"
  /\ calls[p].op = "ensure"
  /\ r.status = "200"
  /\ r \in fetchTextFileWithMetadata(calls[p].etag, calls[p].lastModified)
  /\ meta' = IF at = "beforeContent" THEN meta
             ELSE JsonMeta(OrNull(r.etag), OrNull(r.lastModified), calls[p].now)
  /\ content' = content
  /\ calls' = [q \in Procs |-> IdleCall]
  /\ last' = Ev("crashed", p, r, calls[p].now, "none", "none")
  /\ dir' \in ensureDirectoryExists(dir, at # "beforeContent")
  /\ UNCHANGED <<clock, server>>

EnsureWriteCrash(p, r, at) ==
  /\ calls[p].pc = "sent"
  /\ calls[p].op = "ensure"
  /\ r.status = "200"
  /\ r \in fetchTextFileWithMetadata(calls[p].etag, calls[p].lastModified)
  /\ content' = IF at = "beforeContent" THEN content ELSE r.text
  /\ meta' = IF at = "duringMeta" THEN CorruptMeta ELSE meta
  /\ calls' = [q \in Procs |-> IdleCall]
  /\ last' = Ev("crashed", p, r, calls[p].now, "none", "none")
  /\ dir' \in ensureDirectoryExists(dir, at # "beforeContent")
  /\ UNCHANGED <<clock, server>>

(***************************************************************************)
(* A fetch whose request is answered by a 3xx with a Location header sends *)
(* the request again to the new location.  The model stops counting at     *)
(* MaxHops.                                                                *)
(***************************************************************************)
FollowRedirect(p) ==
  /\ calls[p].pc = "sent"
  /\ hops[p] < MaxHops
  /\ hops' = [hops EXCEPT ![p] = @ + 1]
  /\ last' = Ev("redirect", p, NoResp, calls[p].now, "none", "none")
  /\ UNCHANGED <<content, meta, clock, server, calls, sched, dir>>

(***************************************************************************)
(* startDailyScheduler: with an interval, run at once and register the     *)
(* repeating timer; else register the one-shot timer for runAt.            *)
(***************************************************************************)
StartDailyScheduler(p) ==
  /\ sched.mode = "off"
  /\ IF IntervalMode(sched.intervalHours)
     THEN /\ SaveStart(p)
          /\ sched' = [sched EXCEPT !.mode = "interval", !.started = 1,
                                    !.intervals = 1,
                                    !.intervalMs = IntervalMs(sched.intervalHours)]
     ELSE /\ sched' = [sched EXCEPT !.mode = "runAt", !.timeout = TRUE,
                                    !.delay = msUntilNextRunAt(sched.runAt, sched.now)]
          /\ last' = EnvEv("scheduled")
          /\ UNCHANGED <<content, meta, clock, server, calls, dir>>
  /\ UNCHANGED hops

\* the setTimeout callback up to its await: runOnce() up to its await
TimeoutFires(p) ==
  /\ sched.alive
  /\ sched.timeout
  /\ SaveStart(p)
  /\ sched' = [sched EXCEPT !.timeout = FALSE, !.awaited = p, !.started = @ + 1]
  /\ UNCHANGED hops

\* a setInterval callback: runOnce() up to its await
IntervalFires(p) ==
  /\ sched.alive
  /\ sched.intervals > 0
  /\ sched.started < MaxRuns
  /\ SaveStart(p)
  /\ sched' = [sched EXCEPT !.started = @ + 1]
  /\ UNCHANGED hops

\* runOnce from the end of saveLlmsTextToFile to its end: the outcome is
\* logged; when logging throws, the promise of runOnce rejects, and the
\* unhandled rejection ends the process (dies) or not, as the runtime is
\* set up.  The setTimeout callback registers the repeating timer after the
\* run it awaited.
RunOnceResume(p, r, contentOk, dies) ==
  /\ sched.alive
  /\ SaveResume(p, r, contentOk)
  /\ LET rejects == LogThrows(sched.logger)
     IN sched' = [sched EXCEPT
                    !.rejected = @ \/ rejects,
                    !.alive = ~(rejects /\ dies),
                    !.awaited = IF @ = p THEN "none" ELSE @,
                    !.intervals = IF sched.awaited = p /\ ~rejects THEN @ + 1 ELSE @,
                    !.intervalMs = IF sched.awaited = p /\ ~rejects THEN MsPerDay ELSE @]
  /\ UNCHANGED hops

\* the caller asks the scheduler to stop: the object startDailyScheduler
\* returned has runOnce only, and the timers stay registered
StopRequested ==
  /\ sched.mode # "off"
  /\ ~sched.stopRequested
  /\ sched' = [sched EXCEPT !.stopRequested = TRUE]
  /\ last' = EnvEv("stop")
  /\ UNCHANGED <<content, meta, clock, server, calls, hops, dir>>

Next ==
  \/ \E p \in Procs, ttlMs \in TtlValues : EnsureStart(p, ttlMs) /\ UNCHANGED <<hops, sched>>
  \/ \E p \in Procs : SaveStart(p) /\ UNCHANGED <<hops, sched>>
  \/ \E p \in Procs, contentOk \in BOOLEAN, metaOk \in BOOLEAN :
       \E r \in fetchTextFileWithMetadata(calls[p].etag, calls[p].lastModified) :
         EnsureResume(p, r, contentOk, metaOk) /\ UNCHANGED <<hops, sched>>
  \/ \E p \in Procs, contentOk \in BOOLEAN :
       \E r \in fetchTextFile : SaveResume(p, r, contentOk) /\ UNCHANGED <<hops, sched>>
  \/ Tick /\ UNCHANGED <<hops, sched>>
  \/ Publish /\ UNCHANGED <<hops, sched>>
  \/ MetaLost /\ UNCHANGED <<hops, sched>>

Spec == Init /\ [][Next]_vars

(***************************************************************************)
(* The same program on a file system whose writes all succeed.             *)
(***************************************************************************)
NextNoFault ==
  \/ \E p \in Procs, ttlMs \in TtlValues : EnsureStart(p, ttlMs) /\ UNCHANGED <<hops, sched>>
  \/ \E p \in Procs : SaveStart(p) /\ UNCHANGED <<hops, sched>>
  \/ \E p \in Procs :
       \E r \in fetchTextFileWithMetadata(calls[p].etag, calls[p].lastModified) :
         EnsureResume(p, r, TRUE, TRUE) /\ UNCHANGED <<hops, sched>>
  \/ \E p \in Procs : \E r \in fetchTextFile : SaveResume(p, r, TRUE) /\ UNCHANGED <<hops, sched>>
  \/ Tick /\ UNCHANGED <<hops, sched>>
  \/ Publish /\ UNCHANGED <<hops, sched>>
  \/ MetaLost /\ UNCHANGED <<hops, sched>>

SpecNoFault == Init /\ [][NextNoFault]_vars

(***************************************************************************)
(* Only ensureFreshLlmsFile calls, on a file system whose writes succeed.  *)
(***************************************************************************)
NextEnsureOnly ==
  \/ \E p \in Procs, ttlMs \in TtlValues : EnsureStart(p, ttlMs) /\ UNCHANGED <<hops, sched>>
  \/ \E p \in Procs :
       \E r \in fetchTextFileWithMetadata(calls[p].etag, calls[p].lastModified) :
         EnsureResume(p, r, TRUE, TRUE) /\ UNCHANGED <<hops, sched>>
  \/ Tick /\ UNCHANGED <<hops, sched>>
  \/ Publish /\ UNCHANGED <<hops, sched>>
  \/ MetaLost /\ UNCHANGED <<hops, sched>>

SpecEnsureOnly == Init /\ [][NextEnsureOnly]_vars

(***************************************************************************)
(* The same program when the process may be killed while it handles a 200. *)
(***************************************************************************)
NextCrash ==
  \/ Next
  \/ \E p \in Procs, at \in CrashPoints :
       \E r \in fetchTextFileWithMetadata(calls[p].etag, calls[p].lastModified) :
         EnsureWriteCrash(p, r, at) /\ UNCHANGED <<hops, sched>>

SpecCrash == Init /\ [][NextCrash]_vars

(***************************************************************************)
(* The same program when the content file may be removed between calls.    *)
(***************************************************************************)
NextLost ==
  \/ Next
  \/ ContentLost /\ UNCHANGED <<hops, sched>>

SpecLost == Init /\ [][NextLost]_vars

(***************************************************************************)
(* Fetches against a server that answers every request with a redirect.    *)
(***************************************************************************)
NextRedirect ==
  \/ \E p \in Procs, ttlMs \in TtlValues : EnsureStart(p, ttlMs) /\ UNCHANGED <<hops, sched>>
  \/ \E p \in Procs : SaveStart(p) /\ UNCHANGED <<hops, sched>>
  \/ \E p \in Procs : FollowRedirect(p)
  \/ Tick /\ UNCHANGED <<hops, sched>>

SpecRedirect == Init /\ [][NextRedirect]_vars

(***************************************************************************)
(* The scheduler, started with one of a few configurations and loggers.    *)
(***************************************************************************)
SchedIntervals == {Num(0, 1), Num(1, 1), Undef}
SchedRunAts == {RunAt(2, 0), InvalidRunAt}
SchedNows == {3 * MsPerHour}

InitSched ==
  /\ content = NoFile
  /\ meta = AbsentMeta
  /\ clock = ClockStepHours * MsPerHour
  /\ server = 1
  /\ calls = [p \in Procs |-> IdleCall]
  /\ last = EnvEv("init")
  /\ hops = [p \in Procs |-> 0]
  /\ dir = FALSE
  /\ \E i \in SchedIntervals, ra \in SchedRunAts, now \in SchedNows, l \in Loggers :
       sched = SchedOff(i, ra, now, l)

NextSched ==
  \/ \E p \in Procs : StartDailyScheduler(p)
  \/ \E p \in Procs : TimeoutFires(p)
  \/ \E p \in Procs : IntervalFires(p)
  \/ \E p \in Procs, contentOk \in BOOLEAN, dies \in BOOLEAN :
       \E r \in fetchTextFile : RunOnceResume(p, r, contentOk, dies)
  \/ StopRequested
  \/ Publish /\ UNCHANGED <<hops, sched>>

SpecSched == InitSched /\ [][NextSched]_vars

(***************************************************************************)
(* msUntilNextRunAt for every run time HH:MM, at times of day around the   *)
(* run time, at both ends of the day and on a grid across the day.         *)
(***************************************************************************)
RunAtMs(runAt) == runAt.hh * MsPerHour + runAt.mm * MsPerMinute

NowsFor(runAt) ==
  {(RunAtMs(runAt) + d + MsPerDay) % MsPerDay : d \in {0 - 1, 0, 1}}
  \cup {0, MsPerDay - 1}
  \cup SchedNows
  \cup {(k * MsPerDay) \div NowSamples : k \in 0..(NowSamples - 1)}

InitRunAt ==
  /\ content = NoFile
  /\ meta = AbsentMeta
  /\ clock = ClockStepHours * MsPerHour
  /\ server = 1
  /\ calls = [p \in Procs |-> IdleCall]
  /\ last = EnvEv("init")
  /\ hops = [p \in Procs |-> 0]
  /\ dir = FALSE
  /\ \E hh \in 0..23, mm \in 0..59 : \E now \in NowsFor(RunAt(hh, mm)) :
       sched = SchedOff(Num(0, 1), RunAt(hh, mm), now, Console)

NextRunAt == \E p \in Procs : StartDailyScheduler(p)

SpecRunAt == InitRunAt /\ [][NextRunAt]_vars

(***************************************************************************)
(* Properties.                                                             *)
(***************************************************************************)

\* C1: a call that finds the content file and a stored lastFetchedAtMs with
\* now - lastFetchedAtMs < ttlMs returns the path at once: it sends no
\* request and leaves the content file and the metadata file as they are.
C1_FreshNoRequestNoWrite ==
  [][(content # NoFile /\ meta.kind = "json") =>
     \A p \in Procs, ttlMs \in TtlValues :
       (/\ calls[p].pc = "idle"
        /\ clock - meta.lastFetchedAtMs < ttlMs
        /\ EnsureStart(p, ttlMs))
       => (/\ last'.ev = "fresh"
           /\ last'.result = "path"
           /\ calls'[p].pc = "idle"
           /\ content' = content
           /\ meta' = meta)]_vars

\* C1 witness: a call has just returned from the cache, all calls at rest.
C1_Witness ==
  /\ last.ev = "fresh"
  /\ last.result = "path"
  /\ content # NoFile
  /\ meta.kind = "json"
  /\ AllIdle

\* C2: a due call that found the content file and whose fetch fails returns
\* the path and writes neither the content file nor the metadata file.
C2_StaleFallback ==
  [][\A p \in Procs :
       (/\ calls[p].pc = "sent"
        /\ calls'[p].pc = "idle"
        /\ last'.resp.status = "err"
        /\ calls[p].fileExists) =>
       \A e \in FetchErrors, contentOk \in BOOLEAN, metaOk \in BOOLEAN :
       EnsureResume(p, FetchRejected(e), contentOk, metaOk)
       => (/\ last'.ev = "stale"
           /\ last'.result = "path"
           /\ content' = content
           /\ meta' = meta)]_vars

\* C2 witness: a call has just served the stale copy after a failed fetch,
\* with validators and a timestamp in the metadata.
C2_Witness ==
  /\ last.ev = "stale"
  /\ last.resp.status = "err"
  /\ content # NoFile
  /\ meta.kind = "json"
  /\ meta.etag # NULL

\* C3: a due call that found no content file and whose fetch fails throws the
\* very error the fetch failed with, and writes neither file.
C3_NoFallbackFailure ==
  [][\A p \in Procs :
       (/\ calls[p].pc = "sent"
        /\ calls'[p].pc = "idle"
        /\ last'.resp.status = "err"
        /\ ~calls[p].fileExists) =>
       \A e \in FetchErrors, contentOk \in BOOLEAN, metaOk \in BOOLEAN :
       EnsureResume(p, FetchRejected(e), contentOk, metaOk)
       => (/\ last'.ev = "failed"
           /\ last'.result = "throw"
           /\ last'.err = e
           /\ content' = content
           /\ meta' = meta)]_vars

\* C3 witness: a call has just thrown the fetch error, and there is still no
\* content file and no metadata file.
C3_Witness ==
  /\ last.ev = "failed"
  /\ last.err \in FetchErrors
  /\ last.err = last.resp.err
  /\ content = NoFile
  /\ meta = AbsentMeta

\* the validators a metadata file holds (none when it is absent or unparsable)
Validators(m) == <<readJsonSafe(m).etag, readJsonSafe(m).lastModified>>

\* the stored validators are those the server delivers with the stored content
Paired(c, m) ==
  (c # NoFile /\ m.kind = "json")
    => (m.etag = VersionEtag(c) /\ m.lastModified = VersionLastModified(c))

\* C4: when a due call receives a 200 and returns the path, the content file
\* holds the response body and the metadata holds the response's ETag and
\* Last-Modified (null where the response has none) and the time of the call.
C4_UpdatedStoresResponse ==
  [][\A p \in Procs, v \in Versions, contentOk \in BOOLEAN, metaOk \in BOOLEAN :
       (/\ calls[p].pc = "sent"
        /\ EnsureResume(p, FetchOk(v), contentOk, metaOk)
        /\ last'.result = "path")
       => (/\ content' = v
           /\ meta' = JsonMeta(VersionEtag(v), VersionLastModified(v), calls[p].now))]_vars

\* C5: when a due call receives a 304 it returns the path, the content file is
\* unchanged and the stored etag and lastModified are the ones stored before.
C5_RevalidatedKeepsValidators ==
  [][\A p \in Procs, contentOk \in BOOLEAN, metaOk \in BOOLEAN :
       (/\ calls[p].pc = "sent"
        /\ EnsureResume(p, FetchNotModified(calls[p].etag, calls[p].lastModified),
                        contentOk, metaOk))
       => (/\ last'.result = "path"
           /\ content' = content
           /\ Validators(meta') = Validators(meta))]_vars

\* C6: after a call that fetched (here: received a 200 and returned the path),
\* a call that follows it at once, with ttlMs > 0 and Date.now() unchanged,
\* returns from the cache without a request: one request in total.
C6_TtlIdempotence ==
  [][\A q \in Procs, cfg \in Configs :
       (/\ last.ev = "updated"
        /\ AllIdle
        /\ clock = last.now
        /\ TtlClass(ConfigTtlHours(cfg)) = "positive"
        /\ ConfigTtlMs(cfg) > 0
        /\ EnsureStart(q, ConfigTtlMs(cfg)))
       => last'.ev = "fresh"]_vars

\* C7: a call whose TTL was set to 0, to a negative number or to a non-finite
\* number always sends a request, whatever the stored lastFetchedAtMs and the
\* current time.
C7_ZeroTtlAlwaysRequests ==
  [][\A p \in Procs, cfg \in Configs :
       (/\ TtlClass(RequestedTtl(cfg)) \in {"zero", "negative", "nonfinite"}
        /\ EnsureStart(p, ConfigTtlMs(cfg)))
       => last'.ev = "request"]_vars

\* C8: at no time are two fetches for the output path in flight.
C8_SingleFlight == Cardinality(InFlight) <= 1

\* C9: for every interleaving of ensureFreshLlmsFile calls, once all calls have
\* completed the stored validators are the ones the server delivered with the
\* stored content.
C9_ValidatorsBelongToContent == AllIdle => Paired(content, meta)

\* C10: an operation that replaces the content file replaces the metadata in
\* the same step, by the validators of the response it wrote; and an operation
\* that changes the stored validators has replaced the content file.
C10_PairedUpdate ==
  [][/\ last'.ev \in {"updated", "saved"}
        => meta' = JsonMeta(last'.resp.etag, last'.resp.lastModified, last'.now)
     /\ (last'.p \in Procs /\ Validators(meta') # Validators(meta))
        => last'.ev \in {"updated", "saved"}]_vars

\* C11: when a due call has written the new content and the metadata write
\* then fails (the metadata file does not hold what the call meant to store),
\* the call ends with an error, not with the path as after a full update.
C11_MetaWriteFailureReported ==
  [][\A p \in Procs, v \in Versions :
       (/\ calls[p].pc = "sent"
        /\ calls'[p].pc = "idle"
        /\ EnsureResume(p, FetchOk(v), TRUE, FALSE)
        /\ meta' # JsonMeta(VersionEtag(v), VersionLastModified(v), calls[p].now))
       => last'.result = "throw"]_vars

\* C12: in a step of the 200 path, also one cut short by the death of the
\* process, the metadata file comes to hold a JSON object only together with
\* the content write: the object holds the validators of the response and
\* the content file holds the body of that response.
C12_ContentBeforeMetadata ==
  [][(/\ last'.resp.status = "200"
      /\ last'.p \in Procs
      /\ meta' # meta
      /\ meta'.kind = "json")
     => (/\ content' = last'.resp.text
         /\ Validators(meta') = <<last'.resp.etag, last'.resp.lastModified>>)]_vars

\* C12 witness: the process has died between the two writes: the content
\* file holds the new body, the metadata still what it held before.
C12_Witness ==
  /\ last.ev = "crashed"
  /\ content = last.resp.text
  /\ meta.kind = "json"
  /\ Validators(meta) # <<last.resp.etag, last.resp.lastModified>>
  /\ AllIdle

\* C13: against a server that redirects every request, a fetch gives up
\* after maxRedirects hops, for a maxRedirects below the number of hops the
\* model follows.
C13_RedirectBound == \A p \in Procs : hops[p] < MaxHops

C16_FiringOrder ==
  /\ sched.intervals <= 1
  /\ (sched.mode # "off" /\ IntervalMode(sched.intervalHours)) =>
       /\ sched.mode = "interval"
       /\ ~sched.timeout
       /\ sched.started >= 1
       /\ sched.intervals = 1
  /\ (sched.mode # "off" /\ ~IntervalMode(sched.intervalHours)) =>
       /\ sched.mode = "runAt"
       /\ sched.timeout => (sched.started = 0 /\ sched.intervals = 0)
       /\ (~sched.timeout /\ sched.awaited # "none")
            => (sched.started = 1 /\ sched.intervals = 0)
       /\ (~sched.timeout /\ sched.awaited = "none")
            => (sched.intervals = 1 /\ sched.intervalMs = MsPerDay)

\* C17: with any logger that has info, warn and error, no run of runOnce
\* rejects, and the process and its timers live on.
C17_RunContained == ~sched.rejected /\ sched.alive

\* C18: once stop has been asked for, no run is started.
C18_StopPreventsRuns ==
  [][sched.stopRequested =>
       \A p \in Procs : ~(calls[p].pc = "idle" /\ calls'[p].pc = "sent")]_vars

\* C14: a call in flight sends no second request, and when its fetch fails
\* the call ends at once, by the stale copy or by the error.
C14_NoInternalRetry ==
  [][\A p \in Procs :
       (calls[p].pc = "sent" /\ calls[p].op = "ensure") =>
         /\ ~(last'.ev = "request" /\ last'.p = p)
         /\ \A e \in FetchErrors :
              EnsureResume(p, FetchRejected(e), TRUE, TRUE)
              => (/\ calls'[p].pc = "idle"
                  /\ last'.ev \in {"stale", "failed"})]_vars

\* C14 witness: a call has ended on a failed fetch while the other caller's
\* request is still outstanding.
C14_Witness ==
  /\ last.ev \in {"stale", "failed"}
  /\ last.resp.status = "err"
  /\ calls[last.p].pc = "idle"
  /\ \E q \in Procs \ {last.p} : calls[q].pc = "sent" /\ calls[q].op = "ensure"

\* C19: a call that finds the metadata file missing or unparsable does not
\* throw, does not return from the cache, and sends its request without
\* If-None-Match and If-Modified-Since; and every request carries a
\* conditional header exactly for the validators the metadata file stores.
C19_CorruptMetaIsEmptyCache ==
  [][\A p \in Procs, ttlMs \in TtlValues :
       (calls[p].pc = "idle" /\ EnsureStart(p, ttlMs)) =>
         LET h == ConditionalHeaders(calls'[p].etag, calls'[p].lastModified)
         IN /\ last'.result # "throw"
            /\ meta.kind # "json" =>
                 /\ last'.ev = "request"
                 /\ h.ifNoneMatch = NULL
                 /\ h.ifModifiedSince = NULL
            /\ last'.ev = "request" =>
                 /\ h.ifNoneMatch # NULL <=> (meta.kind = "json" /\ meta.etag # NULL)
                 /\ h.ifModifiedSince # NULL
                      <=> (meta.kind = "json" /\ meta.lastModified # NULL)]_vars

\* C19 witness: a request without validators has just been sent by a call
\* that found the content file but an unparsable metadata file.
C19_Witness ==
  /\ last.ev = "request"
  /\ meta.kind = "corrupt"
  /\ content # NoFile
  /\ calls[last.p].pc = "sent"
  /\ calls[last.p].fileExists
  /\ calls[last.p].etag = NULL
  /\ calls[last.p].lastModified = NULL

\* C20: a call returns by the stale-fallback path only when its fetch failed;
\* a 200 whose content write fails ends with an error.
C20_StaleOnlyOnFetchFailure ==
  [][(last'.p \in Procs /\ last'.ev = "stale" /\ last'.result = "path")
       => last'.resp.status = "err"]_vars

\* C21: whenever ensureFreshLlmsFile returns the path (from the cache, after
\* a 200, after a 304 or by the stale fallback), the content file exists.
C21_ResolvedPathExists ==
  [][(/\ last'.p \in Procs
      /\ last'.ev \in {"fresh", "stale", "revalidated", "updated"}
      /\ last'.result = "path")
     => content' # NoFile]_vars

\* C22: a saveLlmsTextToFile call never touches the metadata file; when its
\* fetch fails it throws, leaves the content file as it is and creates no
\* directory; and the content file changes only to the body of a 200.
C22_SaveWritesAfterFetch ==
  [][\A p \in Procs :
       (/\ calls[p].pc = "sent"
        /\ calls[p].op = "save"
        /\ calls'[p].pc = "idle"
        /\ last'.p = p) =>
         /\ meta' = meta
         /\ last'.resp.status # "200" =>
              (/\ content' = content
               /\ dir' = dir
               /\ last'.result = "throw")
         /\ content' # content =>
              (last'.resp.status = "200" /\ content' = last'.resp.text)]_vars

\* C22 witness: a save has just failed on its fetch; the content file of an
\* earlier version and the metadata of an ensureFreshLlmsFile call are there.
C22_Witness ==
  /\ last.ev = "saveFailed"
  /\ last.resp.status = "err"
  /\ content # NoFile
  /\ content # server
  /\ meta.kind = "json"

====
